---------------------------- MODULE Spec2Model ----------------------------
(***************************************************************************)
(* Model of the YouTube transcript bot: src/youtube_utils.py (URL parser,  *)
(* transcript resolver, document formatter) and src/main.py (the message   *)
(* handler and the error handler).                                         *)
(*                                                                         *)
(* Python strings are modelled as sequences of one-character strings, so   *)
(* that regular-expression search, substitution and formatting are         *)
(* computed character by character.                                        *)
(***************************************************************************)
EXTENDS Integers, Sequences, FiniteSets, TLC

VARIABLES
    pc,                    \* position of handle_message / error_handler
    message_text,          \* update.message.text
    video_id,              \* extract_video_id(message_text), or None
    replies,               \* texts sent with update.message.reply_text
    processing_msg,        \* the processing message: its state and its text
    documents,             \* documents delivered with reply_document
    available_transcripts, \* result of get_available_transcripts
    i,                     \* index of the language_priority loop
    transcript_list,       \* get_youtube_transcript: transcript_list
    found_language,        \* get_youtube_transcript: found_language
    outcome,               \* (transcript_content, result) of get_youtube_transcript
    exc,                   \* str(e) of the exception being handled
    fetches,               \* history: caption fetches of get_youtube_transcript
    probes,                \* history: caption fetches of get_available_transcripts
    lookups,               \* history: metadata (oEmbed) calls
    url,                   \* parser run: the input text
    parsed,                \* parser run: extract_video_id / is_valid_youtube_url
    seconds,               \* timestamp run: the input, in tenths of a second
    stamp                  \* timestamp run: the rendered timestamp

vars == << pc, message_text, video_id, replies, processing_msg, documents,
           available_transcripts, i, transcript_list, found_language,
           outcome, exc, fetches, probes, lookups, url, parsed, seconds,
           stamp >>

handlerVars == << pc, message_text, video_id, replies, processing_msg,
                  documents, available_transcripts, i, transcript_list,
                  found_language, outcome, exc, fetches, probes, lookups >>

-----------------------------------------------------------------------------
(* Characters and character classes of Python's re module.                 *)

\* Python's None, for values that are otherwise strings.
None == << "None" >>

LowerLetters ==
    { "a","b","c","d","e","f","g","h","i","j","k","l","m",
      "n","o","p","q","r","s","t","u","v","w","x","y","z" }

UpperLetters ==
    { "A","B","C","D","E","F","G","H","I","J","K","L","M",
      "N","O","P","Q","R","S","T","U","V","W","X","Y","Z" }

Digits == { "0","1","2","3","4","5","6","7","8","9" }

\* \w of a str pattern: letters, digits and the underscore.
WordChars == LowerLetters \cup UpperLetters \cup Digits \cup { "_" }

\* \s of a str pattern (the whitespace characters the inputs use).
SpaceChars == { " ", "\t", "\n" }

\* re.IGNORECASE folds case before comparing.
Lower(c) ==
    CASE c = "A" -> "a" [] c = "B" -> "b" [] c = "C" -> "c" [] c = "D" -> "d"
      [] c = "E" -> "e" [] c = "F" -> "f" [] c = "G" -> "g" [] c = "H" -> "h"
      [] c = "I" -> "i" [] c = "J" -> "j" [] c = "K" -> "k" [] c = "L" -> "l"
      [] c = "M" -> "m" [] c = "N" -> "n" [] c = "O" -> "o" [] c = "P" -> "p"
      [] c = "Q" -> "q" [] c = "R" -> "r" [] c = "S" -> "s" [] c = "T" -> "t"
      [] c = "U" -> "u" [] c = "V" -> "v" [] c = "W" -> "w" [] c = "X" -> "x"
      [] c = "Y" -> "y" [] c = "Z" -> "z" [] OTHER -> c

\* The literal `lit` matches `s` at position p (1-based).
MatchAt(s, p, lit) ==
    /\ p >= 1
    /\ p + Len(lit) - 1 <= Len(s)
    /\ \A k \in 1..Len(lit) : s[p + k - 1] = lit[k]

\* The same under re.IGNORECASE.
MatchAtCI(s, p, lit) ==
    /\ p >= 1
    /\ p + Len(lit) - 1 <= Len(s)
    /\ \A k \in 1..Len(lit) : Lower(s[p + k - 1]) = Lower(lit[k])

Min(S) == CHOOSE x \in S : \A y \in S : x <= y
Max(S) == CHOOSE x \in S : \A y \in S : x >= y

-----------------------------------------------------------------------------
(* extract_video_id                                                        *)

\* The characters the capture group [^&\n?#]+ stops at.
GroupStop == { "&", "\n", "?", "#" }

\* The alternatives of the first pattern, in the order written.
WatchMarker  == <<"y","o","u","t","u","b","e",".","c","o","m","/","w","a","t","c","h","?","v","=">>
ShortMarker  == <<"y","o","u","t","u",".","b","e","/">>
EmbedMarker  == <<"y","o","u","t","u","b","e",".","c","o","m","/","e","m","b","e","d","/">>
VMarker      == <<"y","o","u","t","u","b","e",".","c","o","m","/","v","/">>
MobileMarker == <<"m",".","y","o","u","t","u","b","e",".","c","o","m","/","w","a","t","c","h","?","v","=">>

Pattern1Markers ==
    << WatchMarker, ShortMarker, EmbedMarker, VMarker, MobileMarker >>

\* The head of the second pattern, before `.*v=`.
WatchQuery == <<"y","o","u","t","u","b","e",".","c","o","m","/","w","a","t","c","h","?">>
VParam == <<"v","=">>

\* The greedy group ([^&\n?#]+) starting at position g: the longest run of
\* characters outside GroupStop.  Empty when the group cannot match.
Group(s, g) ==
    LET stops == { e \in g..Len(s) : s[e] \in GroupStop }
        last  == IF stops = {} THEN Len(s) ELSE Min(stops) - 1
    IN  IF g > Len(s) THEN << >> ELSE SubSeq(s, g, last)

\* Pattern 1 matches at position p with alternative m.
Pattern1At(s, p, m) ==
    /\ MatchAt(s, p, Pattern1Markers[m])
    /\ Group(s, p + Len(Pattern1Markers[m])) # << >>

\* re.search with pattern 1: the leftmost position, there the first
\* alternative that matches; group(1), or None.
SearchPattern1(s) ==
    LET hits == { p \in 1..Len(s) :
                    \E m \in 1..Len(Pattern1Markers) : Pattern1At(s, p, m) }
    IN  IF hits = {} THEN None
        ELSE LET p == Min(hits)
                 m == Min({ a \in 1..Len(Pattern1Markers) : Pattern1At(s, p, a) })
             IN  Group(s, p + Len(Pattern1Markers[m]))

\* Pattern 2 at position p with `.*` taking k characters: none of them a
\* newline, then `v=`, then a non-empty group.
Pattern2At(s, p, k) ==
    LET q == p + Len(WatchQuery)
    IN  /\ MatchAt(s, p, WatchQuery)
        /\ \A j \in q..(q + k - 1) : j <= Len(s) /\ s[j] # "\n"
        /\ MatchAt(s, q + k, VParam)
        /\ Group(s, q + k + Len(VParam)) # << >>

\* re.search with pattern 2: leftmost position, `.*` greedy (the longest k).
SearchPattern2(s) ==
    LET hits == { p \in 1..Len(s) :
                    /\ MatchAt(s, p, WatchQuery)
                    /\ \E k \in 0..Len(s) : Pattern2At(s, p, k) }
    IN  IF hits = {} THEN None
        ELSE LET p == Min(hits)
                 k == Max({ n \in 0..Len(s) : Pattern2At(s, p, n) })
             IN  Group(s, p + Len(WatchQuery) + k + Len(VParam))

\* extract_video_id: the first pattern that matches wins.
extract_video_id(s) ==
    LET first == SearchPattern1(s)
    IN  IF first # None THEN first ELSE SearchPattern2(s)

-----------------------------------------------------------------------------
(* is_valid_youtube_url                                                    *)

HttpPrefix  == <<"h","t","t","p",":","/","/">>
HttpsPrefix == <<"h","t","t","p","s",":","/","/">>
WwwPrefix   == <<"w","w","w",".">>
HostLong    == <<"y","o","u","t","u","b","e",".","c","o","m">>
HostShort   == <<"y","o","u","t","u",".","b","e">>
HostMobile  == <<"m",".","y","o","u","t","u","b","e",".","c","o","m">>

\* (https?://)?(www\.)?(youtube\.com|youtu\.be|m\.youtube\.com), searched
\* anywhere in the text, ignoring case.
is_valid_youtube_url(s) ==
    \E p \in 1..Len(s) :
        \E scheme \in { << >>, HttpPrefix, HttpsPrefix } :
            \E www \in { << >>, WwwPrefix } :
                \E host \in { HostLong, HostShort, HostMobile } :
                    MatchAtCI(s, p, scheme \o www \o host)

-----------------------------------------------------------------------------
(* format_timestamp                                                        *)

\* Caption offsets are real numbers; an offset is held in ticks, with
\* TicksPerSecond ticks to the second.
TicksPerSecond == 10

DigitChar(d) ==
    CASE d = 0 -> "0" [] d = 1 -> "1" [] d = 2 -> "2" [] d = 3 -> "3"
      [] d = 4 -> "4" [] d = 5 -> "5" [] d = 6 -> "6" [] d = 7 -> "7"
      [] d = 8 -> "8" [] d = 9 -> "9"

RECURSIVE Decimal(_)
\* str(n) for an integer n >= 0.
Decimal(n) ==
    IF n < 10 THEN << DigitChar(n) >>
    ELSE Append(Decimal(n \div 10), DigitChar(n % 10))

\* The format spec 02d: zero-padded to a width of at least 2.
Format02d(n) ==
    IF Len(Decimal(n)) < 2 THEN << "0" >> \o Decimal(n) ELSE Decimal(n)

\* hours = int(seconds // 3600)
HoursOf(t) == t \div (3600 * TicksPerSecond)

\* A bug that forgets to take the minutes within the hour.
MinutesOfTotal(t) == t \div (60 * TicksPerSecond)

\* minutes = int((seconds % 3600) // 60)
MinutesOf(t) == (t % (3600 * TicksPerSecond)) \div (60 * TicksPerSecond)

\* seconds = int(seconds % 60)
SecondsOf(t) == (t % (60 * TicksPerSecond)) \div TicksPerSecond

\* format_timestamp(seconds), the offset t given in ticks.
format_timestamp(t) ==
    IF HoursOf(t) > 0
    THEN Format02d(HoursOf(t)) \o << ":" >> \o Format02d(MinutesOf(t))
             \o << ":" >> \o Format02d(SecondsOf(t))
    ELSE Format02d(MinutesOf(t)) \o << ":" >> \o Format02d(SecondsOf(t))

-----------------------------------------------------------------------------
(* Document formatting helpers of get_youtube_transcript                   *)

RECURSIVE LStrip(_)
LStrip(s) ==
    IF s # << >> /\ Head(s) \in SpaceChars THEN LStrip(Tail(s)) ELSE s

RECURSIVE RStrip(_)
RStrip(s) ==
    IF s # << >> /\ s[Len(s)] \in SpaceChars
    THEN RStrip(SubSeq(s, 1, Len(s) - 1)) ELSE s

\* str.strip()
Strip(s) == RStrip(LStrip(s))

KeptInTitle(c) == c \in WordChars \cup SpaceChars \cup { "-" }

\* re.sub(r'[^\w\s-]', '', video_title)
RemoveUnsafe(s) == SelectSeq(s, KeptInTitle)

RECURSIVE CollapseRuns(_)
\* re.sub(r'[-\s]+', '_', safe_title): every maximal run of hyphens and
\* whitespace becomes one underscore.
CollapseRuns(s) ==
    IF s = << >> THEN << >>
    ELSE IF Head(s) \in SpaceChars \cup { "-" }
         THEN IF Len(s) > 1 /\ s[2] \in SpaceChars \cup { "-" }
              THEN CollapseRuns(Tail(s))
              ELSE << "_" >> \o CollapseRuns(Tail(s))
         ELSE << Head(s) >> \o CollapseRuns(Tail(s))

safe_title(title) == CollapseRuns(RemoveUnsafe(title))

TxtExtension == <<".","t","x","t">>

\* filename = f"{safe_title}_{video_id}_{now:%Y%m%d}.txt"
Filename(title, vid, ymd) ==
    safe_title(title) \o << "_" >> \o vid \o << "_" >> \o ymd \o TxtExtension

-----------------------------------------------------------------------------
(* get_video_title                                                         *)

VideoPrefix == <<"V","i","d","e","o","_">>

FallbackTitle(vid) == VideoPrefix \o vid

\* A bug that keeps the fallback for exceptions only: any response that
\* came back is taken to carry the title.
get_video_title_unchecked(vid, r) ==
    IF r.raised # "none" THEN FallbackTitle(vid) ELSE r.title

\* The oEmbed call: requests.get raises (connection error, timeout), or
\* returns a response with a status code; response.json() raises on a body
\* that is not JSON, and otherwise gives a dict with or without 'title'.
get_video_title(vid, r) ==
    IF r.raised # "none" THEN FallbackTitle(vid)
    ELSE IF r.status_code = 200
         THEN IF ~r.is_json THEN FallbackTitle(vid)
              ELSE IF r.has_title THEN r.title ELSE FallbackTitle(vid)
         ELSE FallbackTitle(vid)

-----------------------------------------------------------------------------
(* The parser on free-form text: extract_video_id and is_valid_youtube_url *)

\* Free-form message texts: a lead-in, a link head, an identifier and what
\* follows it.
TextLeads ==
    { << >>,
      <<"s","e","e"," ">>,
      <<"h","t","t","p","s",":","/","/","w","w","w",".">> }

TextHeads ==
    { WatchMarker, ShortMarker, EmbedMarker, VMarker, MobileMarker,
      <<"y","o","u","t","u","b","e",".","c","o","m","/","w","a","t","c","h","?","t","=","1","&","v","=">>,
      <<"y","o","u","t","u","b","e",".","c","o","m","/","w","a","t","c","h","?","a","=","1","\n","v","=">>,
      <<"y","o","u","t","u","b","e",".","c","o","m","/","w","a","t","c","h","?","v","=","&","v","=">>,
      <<"Y","o","u","T","u","b","e",".","c","o","m","/","w","a","t","c","h","?","v","=">>,
      <<"y","o","u","t","u","b","e",".","c","o","m","/">>,
      <<"v","i","m","e","o",".","c","o","m","/">>,
      <<"h","e","l","l","o">> }

TextIds ==
    { << >>, <<"a","b","c">>, <<"a","-","B","_","1">> }

TextTails ==
    { << >>,
      <<"&","t","=","1">>,
      <<"?","s","=","1">>,
      <<"#","x">>,
      <<"\n","h","i">>,
      <<" ","t","h","x">>,
      <<"/","x">> }

Texts ==
    { lead \o head \o id \o tail :
        lead \in TextLeads, head \in TextHeads, id \in TextIds,
        tail \in TextTails }

NotParsed == [ran |-> FALSE, id |-> None, valid |-> FALSE]

InitIdle ==
    /\ pc = "idle"
    /\ message_text = << >>
    /\ video_id = None
    /\ replies = << >>
    /\ processing_msg = [state |-> "none", text |-> << >>]
    /\ documents = << >>
    /\ available_transcripts = << >>
    /\ i = 0
    /\ transcript_list = [fetched |-> FALSE, snippets |-> << >>]
    /\ found_language = "None"
    /\ outcome = [returned |-> FALSE]
    /\ exc = "None"
    /\ fetches = << >>
    /\ probes = << >>
    /\ lookups = << >>

InitParse ==
    /\ InitIdle
    /\ url \in Texts
    /\ parsed = NotParsed
    /\ seconds = 0
    /\ stamp = << >>

\* Both parser functions applied to the text.
Parse ==
    /\ ~parsed.ran
    /\ parsed' = [ran |-> TRUE, id |-> extract_video_id(url),
                  valid |-> is_valid_youtube_url(url)]
    /\ UNCHANGED << handlerVars, url, seconds, stamp >>

NextParse == Parse

SpecParse == InitParse /\ [][NextParse]_vars

-----------------------------------------------------------------------------
(* format_timestamp on caption offsets                                     *)

\* Whole hours below MaxHours, and the hour counts around three digits.
MaxHours == 2

SampleHours == (0..MaxHours) \cup { 99, 100 }

\* Sub-second parts: none, the smallest and the largest.
SampleTicks == { 0, 1, TicksPerSecond - 1 }

Offsets ==
    { ((h * 3600 + m * 60 + s) * TicksPerSecond) + f :
        h \in SampleHours, m \in 0..59, s \in { 0, 1, 5, 9, 10, 59 },
        f \in SampleTicks }

InitTimestamp ==
    /\ InitIdle
    /\ url = << >>
    /\ parsed = NotParsed
    /\ seconds \in Offsets
    /\ stamp = << >>

FormatTimestamp ==
    /\ stamp = << >>
    /\ stamp' = format_timestamp(seconds)
    /\ UNCHANGED << handlerVars, url, parsed, seconds >>

NextTimestamp == FormatTimestamp

SpecTimestamp == InitTimestamp /\ [][NextTimestamp]_vars

-----------------------------------------------------------------------------
(* The external services, as seen by one request                           *)

\* src/config.py
PROCESSING_MESSAGE  == "Processing your video... Please wait..."
ERROR_NO_TRANSCRIPT == "Sorry, this video doesn't have any available transcripts or subtitles."
ERROR_INVALID_URL   == "Please send a valid YouTube video URL."
ERROR_GENERAL       == "An error occurred while processing the video. Please try again."
SUCCESS_MESSAGE     == "Transcript extracted successfully! Here's your file:"

\* The literal texts of handle_message and error_handler.
INVALID_URL_PROMPT  == "Please send a valid YouTube video URL. Example formats: ..."
UNEXPECTED_ERROR    == "An unexpected error occurred. Please try again later."

language_priority == << "hi", "hi-IN", "en", "en-US", "en-GB" >>

common_languages ==
    << "hi", "hi-IN", "en", "en-US", "en-GB", "es", "fr", "de", "ja", "ko" >>

\* A caption track as the caption service returns it: a sequence of
\* snippets (start offset in ticks, text).  A track may have no snippets.
EmptyTrack == << >>

SampleTrack ==
    << [start |-> 0, text |-> <<"H","e","l","l","o">>],
       [start |-> 15, text |-> <<"w","o","r","l","d"," ">>],
       [start |-> 36610 * TicksPerSecond, text |-> <<" ","h","i">>] >>

Tracks == { EmptyTrack, SampleTrack }

\* Descriptions of the errors a caption fetch raises.
FetchErrors == { "NoTranscriptFound", "TranscriptsDisabled" }

\* What one YouTubeTranscriptApi().fetch call does: raise, or return a track.
FetchResults ==
    [kind : { "raise" }, err : FetchErrors, track : { EmptyTrack }]
        \cup [kind : { "ok" }, err : { "None" }, track : Tracks]

\* Titles the metadata service may report.
Titles ==
    { <<"M","y"," ","V","i","d","e","o","!"," ","(","T","e","s","t",")">>,
      <<"a"," ","-"," ","b","/","c">> }

\* What the oEmbed call does: requests.get raises, or a response comes back.
MetadataResponses ==
    [raised : { "ConnectionError", "Timeout" }, status_code : { 0 },
     is_json : { FALSE }, has_title : { FALSE }, title : { << >> }]
        \cup [raised : { "none" }, status_code : { 404 },
              is_json : { FALSE }, has_title : { FALSE }, title : { << >> }]
        \cup [raised : { "none" }, status_code : { 200 },
              is_json : { FALSE }, has_title : { FALSE }, title : { << >> }]
        \cup [raised : { "none" }, status_code : { 200 },
              is_json : { TRUE }, has_title : { FALSE }, title : { << >> }]
        \cup [raised : { "none" }, status_code : { 200 },
              is_json : { TRUE }, has_title : { TRUE }, title : Titles]

\* datetime.now(), rendered with %Y%m%d and with %Y-%m-%d %H:%M:%S.
Clock ==
    { [ymd |-> <<"2","0","2","4","0","1","0","1">>,
       full |-> <<"2","0","2","4","-","0","1","-","0","1"," ","1","2",":","0","0",":","0","0">>] }

\* The languages of the common list whose probe succeeds, in one request.
ProbeSuccesses ==
    { {}, { "hi", "en" },
      { "hi", "hi-IN", "en", "en-US", "en-GB", "es", "fr", "de", "ja", "ko" } }

\* The texts the handler is run on.
MessageTexts ==
    { <<"h","e","l","l","o">>,
      <<"v","i","m","e","o",".","c","o","m","/","a","b","c">>,
      <<"y","o","u","t","u","b","e",".","c","o","m","/">>,
      <<"Y","o","u","T","u","b","e",".","c","o","m","/","w","a","t","c","h","?","v","=","a","b","c">>,
      <<"w","a","t","c","h","?","v","=","a","b","c">>,
      <<"Y","O","U","T","U",".","B","E">>,
      <<"y","o","u","t","u","b","e",",","c","o","m","/","w","a","t","c","h","?","v","=","a","b","c">>,
      <<"s","e","e"," ","h","t","t","p","s",":","/","/","y","o","u","t","u","b","e",".","c","o","m","/","w","a","t","c","h","?","v","=">>,
      <<"y","o","u","t","u","b","e",".","c","o","m","/","w","a","t","c","h","?","v","=","&","t","=","1">>,
      <<"h","t","t","p",":","/","/","m",".","Y","o","u","T","u","b","e",".","c","o","m","/","e","m","b","e","d","/","a","b","c">>,
      ShortMarker \o <<"a","-","B","_","1">>,
      WatchMarker \o <<"a","b","c">> \o <<"&","t","=","1">>,
      ShortMarker \o <<"a","b","c">> \o <<" ","t","h","x">>,
      EmbedMarker \o <<"a","b","c">> \o <<"/","x">> }

\* str(e) of a failed Telegram call.
TelegramError == "TelegramError"

\* A bug that tests transcript_list against None instead of its truth value.
TruthyIsNotNone(t) == t.fetched

\* Truth value of transcript_list: None is false, and a fetched transcript
\* is a sized container, false when it has no snippets.
Truthy(t) == t.fetched /\ Len(t.snippets) > 0

NoTranscript == [fetched |-> FALSE, snippets |-> << >>]

-----------------------------------------------------------------------------
(* get_available_transcripts                                               *)

ManualInfo(lang) ==
    [language |-> lang, language_code |-> lang,
     is_generated |-> FALSE, is_translatable |-> TRUE]

AutoInfo ==
    [language |-> "auto-detected", language_code |-> "auto",
     is_generated |-> TRUE, is_translatable |-> FALSE]

\* The listing, given the languages whose probe succeeds and whether the
\* unrestricted probe succeeds: one entry per fetchable common language, in
\* the order of the list; the automatic entry only when there is none.
get_available_transcripts(ok, autoOk) ==
    LET found == SelectSeq(common_languages, LAMBDA l : l \in ok)
        manual == [k \in 1..Len(found) |-> ManualInfo(found[k])]
    IN  IF manual # << >> THEN manual
        ELSE IF autoOk THEN << AutoInfo >> ELSE << >>

\* The fetches the listing makes: every common language, then the
\* unrestricted one when no language was fetchable.
ProbeCalls(ok) ==
    [k \in 1..Len(common_languages) |-> << common_languages[k] >>]
        \o (IF \A k \in 1..Len(common_languages) : common_languages[k] \notin ok
            THEN << << >> >> ELSE << >>)

-----------------------------------------------------------------------------
(* get_youtube_transcript, step by step                                    *)

Failure(reason) ==
    [returned |-> TRUE, content_is_none |-> TRUE, content |-> << >>,
     result |-> reason]

\* One line of the body: [timestamp] text
BodyLine(entry) ==
    [timestamp |-> format_timestamp(entry.start), text |-> Strip(entry.text)]

\* The header fields and the body, as written to the StringIO.
Document(title, vid, lang, now, track) ==
    [title |-> title,
     video_id |-> vid,
     language |-> IF lang = "None" THEN "Unknown" ELSE lang,
     extracted_on |-> now.full,
     lines |-> [k \in 1..Len(track) |-> BodyLine(track[k])]]

Success(title, vid, lang, now, track) ==
    [returned |-> TRUE, content_is_none |-> FALSE,
     content |-> Document(title, vid, lang, now, track),
     result |-> Filename(title, vid, now.ymd)]

FetchRecord(languages, r) ==
    [languages |-> languages, kind |-> r.kind, err |-> r.err,
     snippets |-> Len(r.track)]

\* The loop over language_priority goes on after a fetch that raised.
LoopContinues(r) == r.kind = "raise"

\* One iteration of the loop over language_priority: a fetch restricted to
\* language_priority[i]; success ends the loop, an exception moves on.
TryLanguage ==
    /\ pc = "gyt_loop"
    /\ \E r \in FetchResults :
        /\ fetches' = Append(fetches, FetchRecord(<< language_priority[i] >>, r))
        /\ IF LoopContinues(r)
           THEN /\ i' = i + 1
                /\ pc' = IF i = Len(language_priority)
                         THEN "gyt_found" ELSE "gyt_loop"
                /\ UNCHANGED << transcript_list, found_language >>
           ELSE /\ transcript_list' = [fetched |-> TRUE, snippets |-> r.track]
                /\ found_language' = language_priority[i]
                /\ pc' = "gyt_found"
                /\ i' = i
    /\ UNCHANGED << message_text, video_id, replies, processing_msg,
                    documents, available_transcripts, outcome, exc, probes,
                    lookups, url, parsed, seconds, stamp >>

\* The test `if not transcript_list` that guards the unrestricted fetch.
NeedsFallback(t) == ~Truthy(t)

\* `if not transcript_list:` after the loop: the unrestricted fetch, and
\* the second test of transcript_list.
FetchFallback ==
    /\ pc = "gyt_found"
    /\ NeedsFallback(transcript_list)
    /\ \E r \in FetchResults :
        /\ fetches' = Append(fetches, FetchRecord(<< >>, r))
        /\ IF r.kind = "raise"
           THEN /\ outcome' = Failure(<< "No transcript available: ", r.err >>)
                /\ pc' = "returned"
                /\ UNCHANGED << transcript_list, found_language >>
           ELSE /\ transcript_list' = [fetched |-> TRUE, snippets |-> r.track]
                /\ found_language' = "auto-detected"
                /\ IF ~Truthy(transcript_list')
                   THEN /\ outcome' = Failure(<< "No transcript available" >>)
                        /\ pc' = "returned"
                   ELSE /\ pc' = "gyt_found"
                        /\ UNCHANGED outcome
    /\ UNCHANGED << message_text, video_id, replies, processing_msg,
                    documents, available_transcripts, i, exc, probes,
                    lookups, url, parsed, seconds, stamp >>

\* With a transcript in hand: the title lookup, the document and the
\* filename.
FormatDocument ==
    /\ pc = "gyt_found"
    /\ ~NeedsFallback(transcript_list)
    /\ \E r \in MetadataResponses, now \in Clock :
        /\ lookups' = Append(lookups, r)
        /\ outcome' = Success(get_video_title(video_id, r), video_id,
                              found_language, now, transcript_list.snippets)
    /\ pc' = "returned"
    /\ UNCHANGED << message_text, video_id, replies, processing_msg,
                    documents, available_transcripts, i, transcript_list,
                    found_language, exc, fetches, probes, url, parsed,
                    seconds, stamp >>

-----------------------------------------------------------------------------
(* handle_message and error_handler                                        *)

\* handle_message goes on to the processing message only for a text that
\* passes is_valid_youtube_url.
PassesUrlCheck(text) == is_valid_youtube_url(text)

\* A bug that drops the test of the extracted identifier.
NoVideoIdUnchecked(vid) == FALSE

\* `if not video_id`: extract_video_id found nothing (a match is never
\* empty, its group takes one character or more).
NoVideoId(vid) == vid = None \/ vid = << >>

\* A text message arrives: the checks of the text, up to the first reply.
HandleMessage ==
    /\ pc = "idle"
    /\ \E text \in MessageTexts :
        /\ message_text' = text
        /\ IF ~PassesUrlCheck(text)
           THEN /\ replies' = Append(replies, INVALID_URL_PROMPT)
                /\ pc' = "done"
                /\ UNCHANGED << video_id, processing_msg >>
           ELSE /\ video_id' = extract_video_id(text)
                /\ IF NoVideoId(video_id')
                   THEN /\ replies' = Append(replies, ERROR_INVALID_URL)
                        /\ pc' = "done"
                        /\ UNCHANGED processing_msg
                   ELSE /\ processing_msg' =
                               [state |-> "shown", text |-> PROCESSING_MESSAGE]
                        /\ pc' = "probe"
                        /\ UNCHANGED replies
    /\ UNCHANGED << documents, available_transcripts, i, transcript_list,
                    found_language, outcome, exc, fetches, probes, lookups,
                    url, parsed, seconds, stamp >>

\* available_transcripts = get_available_transcripts(video_id), and the
\* entry into get_youtube_transcript.
GetAvailableTranscripts ==
    /\ pc = "probe"
    /\ \E ok \in ProbeSuccesses, autoOk \in BOOLEAN :
        /\ available_transcripts' = get_available_transcripts(ok, autoOk)
        /\ probes' = ProbeCalls(ok)
    /\ i' = 1
    /\ transcript_list' = NoTranscript
    /\ found_language' = "None"
    /\ pc' = "gyt_loop"
    /\ UNCHANGED << message_text, video_id, replies, processing_msg,
                    documents, outcome, exc, fetches, lookups, url, parsed,
                    seconds, stamp >>

\* available_transcripts[:5], one line per entry.
ListingLines(avail) ==
    [k \in 1..(IF Len(avail) < 5 THEN Len(avail) ELSE 5) |->
        << avail[k].language, avail[k].language_code,
           IF avail[k].is_generated THEN "Auto-generated" ELSE "Manual" >>]

NoTranscriptText(avail, reason) ==
    [head |-> ERROR_NO_TRANSCRIPT, listing |-> ListingLines(avail),
     error |-> reason]

GeneralErrorText(e) ==
    [head |-> ERROR_GENERAL, listing |-> << >>, error |-> << e >>]

\* After get_youtube_transcript returned: the failure text is put in the
\* processing message, or the document is sent.  Either call may raise.
Respond ==
    /\ pc = "returned"
    /\ \E sent \in BOOLEAN :
        IF outcome.content_is_none
        THEN IF sent
             THEN /\ processing_msg' =
                        [state |-> "edited",
                         text |-> NoTranscriptText(available_transcripts,
                                                   outcome.result)]
                  /\ pc' = "done"
                  /\ UNCHANGED << documents, exc >>
             ELSE /\ exc' = TelegramError
                  /\ pc' = "except"
                  /\ UNCHANGED << documents, processing_msg >>
        ELSE IF sent
             THEN /\ documents' =
                        Append(documents,
                               [filename |-> outcome.result,
                                document |-> outcome.content,
                                caption |-> SUCCESS_MESSAGE])
                  /\ pc' = "delete"
                  /\ UNCHANGED << processing_msg, exc >>
             ELSE /\ exc' = TelegramError
                  /\ pc' = "except"
                  /\ UNCHANGED << documents, processing_msg >>
    /\ UNCHANGED << message_text, video_id, replies, available_transcripts,
                    i, transcript_list, found_language, outcome, fetches,
                    probes, lookups, url, parsed, seconds, stamp >>

\* await processing_msg.delete()
DeleteProcessing ==
    /\ pc = "delete"
    /\ \E deleted \in BOOLEAN :
        IF deleted
        THEN /\ processing_msg' = [state |-> "deleted", text |-> << >>]
             /\ pc' = "done"
             /\ UNCHANGED exc
        ELSE /\ exc' = TelegramError
             /\ pc' = "except"
             /\ UNCHANGED processing_msg
    /\ UNCHANGED << message_text, video_id, replies, documents,
                    available_transcripts, i, transcript_list,
                    found_language, outcome, fetches, probes, lookups, url,
                    parsed, seconds, stamp >>

\* except Exception as e: the general error text is put in the processing
\* message; when that raises too, the exception leaves handle_message.
ExceptClause ==
    /\ pc = "except"
    /\ \E edited \in BOOLEAN :
        IF edited
        THEN /\ processing_msg' =
                   [state |-> "edited", text |-> GeneralErrorText(exc)]
             /\ pc' = "done"
        ELSE /\ pc' = "error_handler"
             /\ UNCHANGED processing_msg
    /\ UNCHANGED << message_text, video_id, replies, documents,
                    available_transcripts, i, transcript_list,
                    found_language, outcome, exc, fetches, probes, lookups,
                    url, parsed, seconds, stamp >>

\* error_handler: the application calls it for an exception that left a
\* handler.
ErrorHandler ==
    /\ pc = "error_handler"
    /\ replies' = Append(replies, UNEXPECTED_ERROR)
    /\ pc' = "done"
    /\ UNCHANGED << message_text, video_id, processing_msg, documents,
                    available_transcripts, i, transcript_list,
                    found_language, outcome, exc, fetches, probes, lookups,
                    url, parsed, seconds, stamp >>

Init ==
    /\ InitIdle
    /\ url = << >>
    /\ parsed = NotParsed
    /\ seconds = 0
    /\ stamp = << >>

Next ==
    \/ HandleMessage
    \/ GetAvailableTranscripts
    \/ TryLanguage
    \/ FetchFallback
    \/ FormatDocument
    \/ Respond
    \/ DeleteProcessing
    \/ ExceptClause
    \/ ErrorHandler

Spec == Init /\ [][Next]_vars

-----------------------------------------------------------------------------
(* Properties of the transcript resolver                                   *)

\* The fetches restricted to one language, and the unrestricted ones.
IsPrioritized(f) == f.languages # << >>
IsUnrestricted(f) == f.languages = << >>

PrioritizedOk == { k \in 1..Len(fetches) :
                     IsPrioritized(fetches[k]) /\ fetches[k].kind = "ok" }

AllPrioritizedFailed ==
    /\ Len(fetches) >= Len(language_priority)
    /\ \A k \in 1..Len(language_priority) :
          IsPrioritized(fetches[k]) /\ fetches[k].kind = "raise"

Resolved == outcome.returned /\ ~outcome.content_is_none
Failed == outcome.returned /\ outcome.content_is_none

\* C1: the prioritized languages are fetched in the order hi, hi-IN, en,
\* en-US, en-GB; whenever a prioritized fetch succeeded, the resolution
\* succeeds, the language written to the document is the first code whose
\* fetch succeeded, and no later code is fetched after it.
C1_FirstSuccessWins ==
    /\ \A k \in 1..Len(fetches) :
          IsPrioritized(fetches[k]) =>
              /\ k <= Len(language_priority)
              /\ fetches[k].languages = << language_priority[k] >>
    /\ (outcome.returned /\ PrioritizedOk # {}) =>
          /\ ~outcome.content_is_none
          /\ outcome.content.language = language_priority[Min(PrioritizedOk)]
          /\ \A k \in 1..Len(fetches) :
                IsPrioritized(fetches[k]) => k <= Min(PrioritizedOk)

C3_FailureOnlyOnExhaustion ==
    Failed =>
        /\ Len(fetches) = Len(language_priority) + 1
        /\ \A k \in 1..Len(fetches) : fetches[k].kind = "raise"
        /\ outcome.result =
              << "No transcript available: ", fetches[Len(fetches)].err >>
        /\ outcome.content = << >>

\* The metadata call did not deliver a title: it raised (exception,
\* timeout), answered with another status than 200, or with a body without
\* a title.
LookupFailed(r) ==
    \/ r.raised # "none"
    \/ r.status_code # 200
    \/ ~r.is_json
    \/ ~r.has_title

C10_FallbackOnlyAfterAllFailed ==
    PrioritizedOk # {} =>
        /\ \A k \in 1..Len(fetches) : ~IsUnrestricted(fetches[k])
        /\ found_language # "auto-detected"
        /\ ~Failed

-----------------------------------------------------------------------------
(* Properties of the message handler                                       *)

\* The final responses the requester has: documents, failure texts sent as
\* replies, and a failure text shown in the processing message.
FinalResponses ==
    Len(documents) + Len(replies)
        + (IF processing_msg.state = "edited" THEN 1 ELSE 0)

\* C5: every handled message ends with exactly one final response: the
\* document or a failure text, never both and never neither.
C5_OneReply == pc = "done" => FinalResponses = 1

\* The text names a YouTube host, in any letter case.
ContainsHost(text) ==
    \E p \in 1..Len(text) :
        MatchAtCI(text, p, HostLong) \/ MatchAtCI(text, p, HostShort)

\* The request ended with a 'please send a valid URL' reply and nothing
\* else: no processing message, no caption fetch, no probe, no title lookup.
RejectedUntouched ==
    /\ pc = "done"
    /\ replies \in { << INVALID_URL_PROMPT >>, << ERROR_INVALID_URL >> }
    /\ processing_msg.state = "none"
    /\ documents = << >>
    /\ fetches = << >>
    /\ probes = << >>
    /\ lookups = << >>

\* C6 as stated: for a text with no recognized link shape,
\* extract_video_id returns None, is_valid_youtube_url returns False, and
\* the handler rejects the message before any external call.
C6_RejectedBeforeServices ==
    (pc # "idle" /\ extract_video_id(message_text) = None) =>
        /\ ~is_valid_youtube_url(message_text)
        /\ RejectedUntouched

\* C6 amended: for a text with no recognized link shape extract_video_id
\* returns None and the handler rejects the message before any external
\* call; is_valid_youtube_url returns False for a text that names no
\* YouTube host, and True for one that names a host, link shape or not.
C6_RejectedBeforeServicesByHost ==
    pc # "idle" =>
        LET id == extract_video_id(message_text)
            host == ContainsHost(message_text)
        IN  /\ id = None => RejectedUntouched
            /\ is_valid_youtube_url(message_text) = host
            /\ ~host => id = None

\* C6 witness: a text that names the host without a link shape was
\* rejected with the invalid-URL error and nothing else happened.
C6_Witness ==
    /\ pc = "done"
    /\ ContainsHost(message_text)
    /\ extract_video_id(message_text) = None
    /\ replies = << ERROR_INVALID_URL >>
    /\ processing_msg.state = "none"
    /\ fetches = << >>

\* The characters of a video identifier.
IdChars == WordChars \cup { "-" }

\* C7: every identifier extract_video_id returns is non-empty and made of
\* ASCII letters, digits, '-' and '_' only.
C7_IdentifierCharset ==
    (parsed.ran /\ parsed.id # None) =>
        /\ parsed.id # << >>
        /\ \A k \in 1..Len(parsed.id) : parsed.id[k] \in IdChars

\* C8: the filename of a resolved transcript is made of letters, digits,
\* underscores and hyphens followed by '.txt', and has the form
\* <sanitized title>_<video id>_<YYYYMMDD>.txt.
C8_FilenameSafe ==
    Resolved =>
        LET name == outcome.result
            stem == Len(name) - Len(TxtExtension)
        IN  /\ stem > 0
            /\ MatchAt(name, stem + 1, TxtExtension)
            /\ \A k \in 1..stem : name[k] \in IdChars
            /\ \E now \in Clock :
                  name = safe_title(outcome.content.title) \o << "_" >>
                            \o video_id \o << "_" >> \o now.ymd
                            \o TxtExtension

-----------------------------------------------------------------------------
(* Properties of format_timestamp                                          *)

RECURSIVE Fields(_)
\* The fields of a rendered timestamp, split at the colons.
Fields(s) ==
    LET colons == { k \in 1..Len(s) : s[k] = ":" }
    IN  IF colons = {} THEN << s >>
        ELSE << SubSeq(s, 1, Min(colons) - 1) >>
                 \o Fields(SubSeq(s, Min(colons) + 1, Len(s)))

RECURSIVE ValueOf(_)
\* The number a field of decimal digits denotes.
ValueOf(f) ==
    IF f = << >> THEN 0
    ELSE 10 * ValueOf(SubSeq(f, 1, Len(f) - 1))
           + (CHOOSE d \in 0..9 : DigitChar(d) = f[Len(f)])

\* A field is two digits, or more digits without a leading zero.
WellPadded(f) ==
    /\ Len(f) >= 2
    /\ \A k \in 1..Len(f) : f[k] \in Digits
    /\ Len(f) > 2 => f[1] # "0"

\* C9: for s whole seconds (the fraction dropped) the timestamp reads
\* HH:MM:SS with HH = s div 3600 when that is positive and MM:SS
\* otherwise, MM = (s mod 3600) div 60 and SS = s mod 60 both in 0..59,
\* every field zero-padded to two digits and the hours never wrapped.
C9_TimestampFields ==
    stamp # << >> =>
        LET s == seconds \div TicksPerSecond
            f == Fields(stamp)
        IN  /\ \A k \in 1..Len(f) : WellPadded(f[k])
            /\ Len(f) = (IF s \div 3600 > 0 THEN 3 ELSE 2)
            /\ Len(f) = 3 => ValueOf(f[1]) = s \div 3600
            /\ ValueOf(f[Len(f) - 1]) = (s % 3600) \div 60
            /\ ValueOf(f[Len(f)]) = s % 60
            /\ ValueOf(f[Len(f) - 1]) \in 0..59
            /\ ValueOf(f[Len(f)]) \in 0..59
            /\ s = 0 => stamp = << "0","0",":","0","0" >>
            /\ s = 65 => stamp = << "0","1",":","0","5" >>
            /\ s = 3661 => stamp = << "0","1",":","0","1",":","0","1" >>
            /\ s = 360000 => stamp = << "1","0","0",":","0","0",":","0","0" >>

\* C9 witness: 3661.9 seconds was rendered as 01:01:01.
C9_Witness ==
    /\ seconds = 3661 * TicksPerSecond + (TicksPerSecond - 1)
    /\ stamp = << "0","1",":","0","1",":","0","1" >>

=============================================================================
